---- MODULE Spec2Model ----
(***************************************************************************)
(* A model of the emotion-decoding web service of src/app.py: the response *)
(* extractor EmotionDecoder._parse_emotion_response, the three handlers    *)
(* analyze_text_emotion / analyze_image_emotion /                          *)
(* analyze_multimodal_emotion, and the three Flask routes in front of      *)
(* them.                                                                   *)
(*                                                                         *)
(* A text (a model reply) is a sequence of tokens.  A token stands for a   *)
(* run of characters that the code's string operations treat as a unit:    *)
(* the three-backtick fence, the word json, a JSON whitespace character,   *)
(* a character that str.strip() removes but json.loads rejects, a piece of *)
(* prose, and complete JSON value texts.                                   *)
(***************************************************************************)
EXTENDS Integers, Sequences, FiniteSets, TLC

\* ------------------------------------------------------------- bounds
\* Longest text given to the extractor on its own.
MaxLen == 6
\* Longest reply body the upstream model gives a handler (fences excluded).
MaxReplyLen == 1
\* The clock (datetime.now()) runs from 1 to MaxClock.
MaxClock == 2
\* Number of requests that may be in flight at once.
NumReqs == 2

\* ------------------------------------------------------------- tokens
\* FENCE is a run of three backticks, SP a JSON whitespace character (a
\* newline), FF a form feed (str.isspace() but no JSON whitespace), PROSE a
\* run of words, OBJ1 and OBJ2 the texts of two JSON objects (OBJ2 with
\* keys input_type and timestamp of its own), NUM the text of a JSON number.
FENCE   == "<fence>"
JSONTAG == "json"
SP      == "<nl>"
FF      == "<ff>"
PROSE   == "<prose>"
OBJ1    == "<object joy 90>"
OBJ2    == "<object sadness input_type timestamp>"
NUM     == "<number 5>"

\* Tokens of the texts the extractor is applied to on its own.
Alphabet == {FENCE, JSONTAG, SP, FF, PROSE, OBJ1}

\* Tokens of the replies the upstream model gives a handler.
ReplyAlphabet == Alphabet \cup {OBJ2, NUM}

\* Python's None, and the strings the requests carry.
None    == "<None>"
EMPTY   == ""
TEXT    == "I am so happy today"
B64OK   == "aGk="
B64BAD  == "a"
URI     == "gs://bucket/face.jpg"

\* ------------------------------------------------------ python values
\* A value json.loads can return: a dict (a function on its keys) or a
\* value that is not a dict.
PyDict(d) == [kind |-> "dict", v |-> d]
PyInt(n)  == [kind |-> "int", v |-> n]
IsDict(x) == x.kind = "dict"

Obj1 == [primary_emotion |-> "joy", confidence |-> 90]
Obj2 == [primary_emotion |-> "sadness", input_type |-> "model", timestamp |-> 0]

\* d[k] = val on a dict.
DictSet(d, k, val) == [x \in (DOMAIN d) \cup {k} |-> IF x = k THEN val ELSE d[x]]

\* ----------------------------------------------------- str operations
\* sep occurs in s at position i.
OccursAt(s, sep, i) ==
    /\ i >= 1
    /\ i + Len(sep) - 1 <= Len(s)
    /\ SubSeq(s, i, i + Len(sep) - 1) = sep

\* sep in s
Contains(s, sep) == \E i \in 1..Len(s) : OccursAt(s, sep, i)

\* Position of the leftmost occurrence of sep in s (0: none).
Find(s, sep) ==
    IF Contains(s, sep)
    THEN CHOOSE i \in 1..Len(s) :
            /\ OccursAt(s, sep, i)
            /\ \A k \in 1..(i - 1) : ~OccursAt(s, sep, k)
    ELSE 0

\* s.split(sep): the pieces between the non-overlapping occurrences of sep,
\* found left to right.
RECURSIVE Split(_, _)
Split(s, sep) ==
    LET i == Find(s, sep)
    IN  IF i = 0
        THEN <<s>>
        ELSE <<SubSeq(s, 1, i - 1)>> \o Split(SubSeq(s, i + Len(sep), Len(s)), sep)

\* Characters str.strip() removes: every str.isspace() character.
IsSpace(c) == c \in {SP, FF}

RECURSIVE LStrip(_)
LStrip(s) == IF s # <<>> /\ IsSpace(Head(s)) THEN LStrip(Tail(s)) ELSE s

RECURSIVE RStrip(_)
RStrip(s) ==
    IF s # <<>> /\ IsSpace(s[Len(s)]) THEN RStrip(SubSeq(s, 1, Len(s) - 1)) ELSE s

\* s.strip()
Strip(s) == RStrip(LStrip(s))

\* --------------------------------------------------------- json.loads
\* Whitespace json.loads skips around a value: space, \t, \n, \r only.
IsJsonSpace(c) == c = SP

RECURSIVE JsonLSkip(_)
JsonLSkip(s) == IF s # <<>> /\ IsJsonSpace(Head(s)) THEN JsonLSkip(Tail(s)) ELSE s

RECURSIVE JsonRSkip(_)
JsonRSkip(s) ==
    IF s # <<>> /\ IsJsonSpace(s[Len(s)])
    THEN JsonRSkip(SubSeq(s, 1, Len(s) - 1))
    ELSE s

\* The value a JSON value text stands for.
JsonValue(tok) ==
    CASE tok = OBJ1 -> PyDict(Obj1)
      [] tok = OBJ2 -> PyDict(Obj2)
      [] tok = NUM  -> PyInt(5)

\* json.loads(s): ok with the value, or not ok (json.JSONDecodeError).
JsonLoads(s) ==
    LET t == JsonRSkip(JsonLSkip(s))
    IN  IF Len(t) = 1 /\ t[1] \in {OBJ1, OBJ2, NUM}
        THEN [ok |-> TRUE, val |-> JsonValue(t[1])]
        ELSE [ok |-> FALSE]

\* ------------------------------------- _parse_emotion_response (extract)
\* Variant of JsonFenceCandidate that forgets to cut at the closing fence.
JsonFenceCandidateUnclosed(response_text) ==
    Split(response_text, <<FENCE, JSONTAG>>)[2]

\* response_text.split(FENCE json)[1].split(FENCE)[0]
JsonFenceCandidate(response_text) ==
    Split(Split(response_text, <<FENCE, JSONTAG>>)[2], <<FENCE>>)[1]

\* response_text.split(FENCE)[1].split(FENCE)[0]
GenericFenceCandidate(response_text) ==
    Split(Split(response_text, <<FENCE>>)[2], <<FENCE>>)[1]

\* The string handed to json.loads, before .strip().
Candidate(response_text) ==
    IF Contains(response_text, <<FENCE, JSONTAG>>)
    THEN JsonFenceCandidate(response_text)
    ELSE IF Contains(response_text, <<FENCE>>)
         THEN GenericFenceCandidate(response_text)
         ELSE response_text

\* Variant of FallbackRecord that reports the trimmed text.
FallbackRecordTrimmed(response_text) ==
    PyDict([primary_emotion |-> "unknown",
            confidence      |-> 0,
            explanation     |-> Strip(response_text),
            raw_response    |-> Strip(response_text)])

\* The dict of the bare except: clause.
FallbackRecord(response_text) ==
    PyDict([primary_emotion |-> "unknown",
            confidence      |-> 0,
            explanation     |-> response_text,
            raw_response    |-> response_text])

\* _parse_emotion_response: whatever json.loads returns, dict or not; the
\* fallback only when json.loads raises.
ParseEmotionResponse(response_text) ==
    LET loaded == JsonLoads(Strip(Candidate(response_text)))
    IN  IF loaded.ok THEN loaded.val ELSE FallbackRecord(response_text)

\* ---------------------------------------------------------------- state
VARIABLES
    raw_text,    \* the text the extractor is applied to on its own
    extracted,   \* what it returned
    xpc,         \* "ready" | "returned"
    decoder,     \* the process-wide EmotionDecoder: model, bucket, emotions
    clock,       \* datetime.now()
    req,         \* per request: how it came in and what it carries
    pc,          \* per request: "idle" | "received" | "upstream" | "done"
    sent,        \* per request: the contents passed to generate_content
    reply,       \* per request: what generate_content / response.text gave
    ret,         \* per request: how the handler call completed
    parsed,      \* per request: calls of _parse_emotion_response so far
    http         \* per request: the HTTP response of the route

vars == <<raw_text, extracted, xpc, decoder, clock, req, pc, sent, reply, ret,
          parsed, http>>

server_vars == <<decoder, clock, req, pc, sent, reply, ret, parsed, http>>

Reqs == 1..NumReqs

NoValue == [kind |-> "none"]

\* All texts of at most n tokens over the alphabet A.
TextsOver(A, n) == UNION {[1..k -> A] : k \in 0..n}

\* EmotionDecoder.__init__
DecoderInit ==
    [model    |-> "gemini-pro-vision",
     bucket   |-> "emotion-chatbot-assets",
     emotions |-> <<"joy", "sadness", "anger", "fear", "surprise",
                    "disgust", "neutral", "love", "excitement", "anxiety">>]

ServerInit ==
    /\ decoder = DecoderInit
    /\ clock = 1
    /\ req = [r \in Reqs |-> NoValue]
    /\ pc = [r \in Reqs |-> "idle"]
    /\ sent = [r \in Reqs |-> <<>>]
    /\ reply = [r \in Reqs |-> NoValue]
    /\ ret = [r \in Reqs |-> NoValue]
    /\ parsed = [r \in Reqs |-> 0]
    /\ http = [r \in Reqs |-> NoValue]

\* ------------------------------------------------------ python calls
\* bool(v) for None and str values.
Truthy(v) == v # None /\ v # EMPTY

\* d.get(k, default)
DictGet(d, k, default) == IF k \in DOMAIN d THEN d[k] ELSE default

\* How a call completes: it returns a value or raises an Exception.
Return(v)  == [raised |-> FALSE, value |-> v]
Raise(msg) == [raised |-> TRUE, msg |-> msg]

\* Variant of B64Decode that decodes what it can and never raises.
B64DecodeLenient(s) ==
    CASE s = B64OK -> [ok |-> TRUE, bytes |-> "hi"]
      [] OTHER     -> [ok |-> TRUE, bytes |-> ""]

\* base64.b64decode(s) of a str.
B64Decode(s) ==
    CASE s = B64OK -> [ok |-> TRUE, bytes |-> "hi"]
      [] s = EMPTY -> [ok |-> TRUE, bytes |-> ""]
      [] OTHER     -> [ok |-> FALSE, msg |-> "binascii.Error: Incorrect padding"]

\* ----------------------------------------------------------- handlers
\* _error_response(error_msg), with datetime.now() = now.
ErrorResponse(error_msg, now) ==
    PyDict([error           |-> TRUE,
            message         |-> error_msg,
            primary_emotion |-> "error",
            confidence      |-> 0,
            timestamp       |-> now])

\* The prompts: the text prompt names self.emotions and quotes the text,
\* the image prompt is fixed, the multimodal prompt quotes the text.
TextPrompt(self, text)  == [intent |-> "text", emotions |-> self.emotions, text |-> text]
ImagePrompt             == [intent |-> "image"]
MultimodalPrompt(text)  == [intent |-> "multimodal", text |-> text]

\* Variant of ImagePart that decodes the inline data, when there is any,
\* before it looks at the URI.
ImagePartDataFirst(image_data, image_uri) ==
    IF image_data # None /\ ~B64Decode(image_data).ok
    THEN {[built |-> FALSE, msg |-> B64Decode(image_data).msg]}
    ELSE IF Truthy(image_uri)
         THEN {[built |-> TRUE,
                part  |-> [kind |-> "uri", ref |-> image_uri, mime |-> "image/jpeg"]]}
         ELSE {[built |-> TRUE,
                part  |-> [kind |-> "data",
                           ref  |-> IF image_data = None THEN None
                                    ELSE B64Decode(image_data).bytes,
                           mime |-> "image/jpeg"]]}

\* "Prepare image part": the ways the block can complete.  Part.from_data
\* of None (image_data None and no URI) is the library's to accept or
\* refuse: both are possible.
ImagePart(image_data, image_uri) ==
    IF Truthy(image_uri)
    THEN {[built |-> TRUE,
           part  |-> [kind |-> "uri", ref |-> image_uri, mime |-> "image/jpeg"]]}
    ELSE IF image_data # None
         THEN LET d == B64Decode(image_data)
              IN  IF d.ok
                  THEN {[built |-> TRUE,
                         part  |-> [kind |-> "data", ref |-> d.bytes,
                                    mime |-> "image/jpeg"]]}
                  ELSE {[built |-> FALSE, msg |-> d.msg]}
         ELSE {[built |-> TRUE,
                part  |-> [kind |-> "data", ref |-> None, mime |-> "image/jpeg"]],
               [built |-> FALSE, msg |-> "TypeError: Part.from_data"]}

\* Variant of AnalyzeTextBegin that refuses an empty text before the call.
AnalyzeTextBeginValidating(self, text) ==
    IF Truthy(text)
    THEN {[call |-> TRUE, contents |-> <<TextPrompt(self, text)>>]}
    ELSE {[call |-> FALSE, msg |-> "InputError: text is required"]}

\* A handler up to its generate_content call: the contents it passes, or
\* the exception raised before the call.
AnalyzeTextBegin(self, text) ==
    {[call |-> TRUE, contents |-> <<TextPrompt(self, text)>>]}

AnalyzeImageBegin(self, image_data, image_uri) ==
    {IF p.built
     THEN [call |-> TRUE, contents |-> <<ImagePrompt, p.part>>]
     ELSE [call |-> FALSE, msg |-> p.msg] : p \in ImagePart(image_data, image_uri)}

AnalyzeMultimodalBegin(self, text, image_data, image_uri) ==
    {IF p.built
     THEN [call |-> TRUE, contents |-> <<MultimodalPrompt(text), p.part>>]
     ELSE [call |-> FALSE, msg |-> p.msg] : p \in ImagePart(image_data, image_uri)}

\* The handler of a mode, on the arguments a (text, image_data, image_uri).
HandlerBegin(self, mode, a) ==
    CASE mode = "text"       -> AnalyzeTextBegin(self, a.text)
      [] mode = "image"      -> AnalyzeImageBegin(self, a.image_data, a.image_uri)
      [] mode = "multimodal" ->
            AnalyzeMultimodalBegin(self, a.text, a.image_data, a.image_uri)

\* The try block after generate_content: response.text is parsed and the
\* result stamped by item assignment, which raises TypeError on a value
\* that is not a dict.  out is what the upstream call gave.
TryStamp(mode, out, now) ==
    IF ~out.ok
    THEN Raise(out.msg)
    ELSE LET result == ParseEmotionResponse(out.text)
         IN  IF IsDict(result)
             THEN Return(PyDict(DictSet(DictSet(result.v, "input_type", mode),
                                        "timestamp", now)))
             ELSE Raise("TypeError: object does not support item assignment")

\* The calls of _parse_emotion_response the try block makes once the
\* upstream call gave out: the line after generate_content is reached only
\* when neither the call nor response.text raised.
ParseCalls(out) == IF out.ok THEN 1 ELSE 0

\* Variant of Catch that lets the exception through.
CatchNothing(c, now) == c

\* except Exception as e: return self._error_response(str(e))
Catch(c, now) == IF c.raised THEN Return(ErrorResponse(c.msg, now)) ELSE c

\* A handler from the return of generate_content to its own return.
HandlerFinish(mode, out, now) == Catch(TryStamp(mode, out, now), now)

\* Variant of DecoderAfterHandler that remembers the last mode served.
DecoderRemembering(self, mode) == [self EXCEPT !.emotions = Append(@, mode)]

\* The decoder after a handler ran on it: no handler assigns to self.
DecoderAfterHandler(self, mode) == self

\* ------------------------------------------------------------- routes
OK == "<ok>"

\* Variant of RouteReject that checks only the text.
RouteRejectTextOnly(mode, data) ==
    IF mode \in {"text", "multimodal"} /\ ~Truthy(DictGet(data, "text", EMPTY))
    THEN "Text is required"
    ELSE OK

\* Variant of RouteReject that tests the keys' presence, not their truth.
RouteRejectPresence(mode, data) ==
    IF mode \in {"text", "multimodal"} /\ "text" \notin DOMAIN data
    THEN "Text is required"
    ELSE IF /\ mode \in {"image", "multimodal"}
            /\ "image" \notin DOMAIN data
            /\ "image_uri" \notin DOMAIN data
         THEN "Image data or URI is required"
         ELSE OK

\* The 400 message of a route for the JSON object data, or OK:
\* if not text: ... 400;  if not image_data and not image_uri: ... 400
RouteReject(mode, data) ==
    IF mode \in {"text", "multimodal"} /\ ~Truthy(DictGet(data, "text", EMPTY))
    THEN "Text is required"
    ELSE IF /\ mode \in {"image", "multimodal"}
            /\ ~Truthy(DictGet(data, "image", None))
            /\ ~Truthy(DictGet(data, "image_uri", None))
         THEN "Image data or URI is required"
         ELSE OK

\* The arguments a route passes its handler.
RouteArgs(mode, data) ==
    CASE mode = "text"       -> [text |-> DictGet(data, "text", EMPTY)]
      [] mode = "image"      -> [image_data |-> DictGet(data, "image", None),
                                 image_uri  |-> DictGet(data, "image_uri", None)]
      [] mode = "multimodal" -> [text       |-> DictGet(data, "text", EMPTY),
                                 image_data |-> DictGet(data, "image", None),
                                 image_uri  |-> DictGet(data, "image_uri", None)]

Response(status, body) == [status |-> status, body |-> body]

\* return jsonify(result), or the route's except Exception clause.
RouteRespond(c) ==
    IF c.raised
    THEN Response(500, [error |-> c.msg])
    ELSE Response(200, c.value.v)

\* request.get_json() and data.get(...) on a body that is no JSON object.
BodyError(kind) ==
    IF kind = "malformed"
    THEN "400 Bad Request: Failed to decode JSON object"
    ELSE "AttributeError: object has no attribute get"

\* ------------------------------------------------------------- inputs
Modes == {"text", "image", "multimodal"}

\* The keys a route reads.
KeysOf(mode) ==
    CASE mode = "text"       -> {"text"}
      [] mode = "image"      -> {"image", "image_uri"}
      [] mode = "multimodal" -> {"text", "image", "image_uri"}

ValuesOf(key) ==
    CASE key = "text"      -> {EMPTY, TEXT}
      [] key = "image"     -> {EMPTY, B64OK, B64BAD}
      [] key = "image_uri" -> {EMPTY, URI}

\* The JSON objects a request to the route of a mode may carry.
ObjectsFor(mode) ==
    UNION {{d \in [S -> {EMPTY, TEXT, B64OK, B64BAD, URI}] :
                \A k \in S : d[k] \in ValuesOf(k)} : S \in SUBSET KeysOf(mode)}

\* The JSON object with no keys.
EmptyObject == CHOOSE d \in [{} -> {EMPTY}] : TRUE

\* HTTP requests: a JSON object, the JSON value null, or a malformed body.
HttpInputs ==
    UNION {{[via |-> "http", mode |-> m, kind |-> "object", data |-> d] :
                d \in ObjectsFor(m)}
           \cup {[via |-> "http", mode |-> m, kind |-> k, data |-> EmptyObject] :
                k \in {"null", "malformed"}} : m \in Modes}

\* The arguments of a direct call of a handler method.
DirectArgs(mode) ==
    CASE mode = "text"       -> {[text |-> t] : t \in {EMPTY, TEXT}}
      [] mode = "image"      ->
            {[image_data |-> i, image_uri |-> u] :
                i \in {None, EMPTY, B64OK, B64BAD}, u \in {None, EMPTY, URI}}
      [] mode = "multimodal" ->
            {[text |-> t, image_data |-> i, image_uri |-> u] :
                t \in {EMPTY, TEXT},
                i \in {None, EMPTY, B64OK, B64BAD}, u \in {None, EMPTY, URI}}

\* Calls of decoder.analyze_*_emotion made without a route in front.
DirectInputs ==
    UNION {{[via |-> "direct", mode |-> m, args |-> a] : a \in DirectArgs(m)} :
            m \in Modes}

\* Reply texts: a short body, bare or inside a json-tagged or plain fence,
\* or inside a json-tagged fence with prose around it.
ReplyTexts ==
    LET B == TextsOver(ReplyAlphabet, MaxReplyLen)
    IN  B \cup {<<FENCE, JSONTAG>> \o b \o <<FENCE>> : b \in B}
          \cup {<<FENCE>> \o b \o <<FENCE>> : b \in B}
          \cup {<<PROSE, FENCE, JSONTAG>> \o b \o <<FENCE, PROSE>> : b \in B}

FailureMessages == {"503 Service Unavailable", "429 Quota exceeded"}

\* What generate_content(...) followed by response.text can give.
OutcomesOver(texts) ==
    {[ok |-> TRUE, text |-> t] : t \in texts}
        \cup {[ok |-> FALSE, msg |-> m] : m \in FailureMessages}

Outcomes == OutcomesOver(ReplyTexts)

\* A few requests and outcomes, for the runs with several requests in flight.
FewHttpInputs ==
    {[via |-> "http", mode |-> "text", kind |-> "object", data |-> [text |-> TEXT]],
     [via |-> "http", mode |-> "text", kind |-> "object", data |-> EmptyObject],
     [via |-> "http", mode |-> "image", kind |-> "object", data |-> [image_uri |-> URI]],
     [via |-> "http", mode |-> "multimodal", kind |-> "object",
      data |-> [text |-> TEXT, image |-> B64BAD]]}

FewOutcomes ==
    {[ok |-> TRUE, text |-> <<FENCE, JSONTAG, OBJ1, FENCE>>],
     [ok |-> TRUE, text |-> <<PROSE>>],
     [ok |-> FALSE, msg |-> "503 Service Unavailable"]}

\* ------------------------------------------------------------ actions
\* Time passes.
Tick ==
    /\ clock < MaxClock
    /\ clock' = clock + 1
    /\ UNCHANGED <<raw_text, extracted, xpc, decoder, req, pc, sent, reply, ret,
                   parsed, http>>

\* The HTTP request q reaches its route.
HttpRequest(r, q) ==
    /\ pc[r] = "idle"
    /\ req' = [req EXCEPT ![r] = DictSet(q, "start", clock)]
    /\ pc' = [pc EXCEPT ![r] = "received"]
    /\ UNCHANGED <<raw_text, extracted, xpc, decoder, clock, sent, reply, ret,
                   parsed, http>>

\* A handler is entered on the arguments a and runs until it either blocks
\* in generate_content or returns from its except clause.  b is the way
\* its first part completed.
EnterHandler(r, mode, b, viaHttp) ==
    /\ decoder' = DecoderAfterHandler(decoder, mode)
    /\ IF b.call
       THEN /\ sent' = [sent EXCEPT ![r] = Append(@, b.contents)]
            /\ pc' = [pc EXCEPT ![r] = "upstream"]
            /\ UNCHANGED <<ret, http>>
       ELSE LET c == Catch(Raise(b.msg), clock)
            IN  /\ ret' = [ret EXCEPT ![r] = c]
                /\ http' = IF viaHttp
                           THEN [http EXCEPT ![r] = RouteRespond(c)]
                           ELSE http
                /\ pc' = [pc EXCEPT ![r] = "done"]
                /\ UNCHANGED sent

\* The route function: get_json, the 400 checks, then the handler call.
Route(r) ==
    /\ pc[r] = "received"
    /\ LET q == req[r]
       IN  IF q.kind # "object"
           THEN /\ http' = [http EXCEPT ![r] = RouteRespond(Raise(BodyError(q.kind)))]
                /\ pc' = [pc EXCEPT ![r] = "done"]
                /\ UNCHANGED <<decoder, sent, ret>>
           ELSE IF RouteReject(q.mode, q.data) # OK
                THEN /\ http' = [http EXCEPT ![r] =
                                    Response(400, [error |-> RouteReject(q.mode, q.data)])]
                     /\ pc' = [pc EXCEPT ![r] = "done"]
                     /\ UNCHANGED <<decoder, sent, ret>>
                ELSE \E b \in HandlerBegin(decoder, q.mode, RouteArgs(q.mode, q.data)) :
                        EnterHandler(r, q.mode, b, TRUE)
    /\ UNCHANGED <<raw_text, extracted, xpc, clock, req, reply, parsed>>

\* A handler method is called directly, with no route in front of it.
DirectCall(r, q) ==
    /\ pc[r] = "idle"
    /\ req' = [req EXCEPT ![r] = DictSet(q, "start", clock)]
    /\ \E b \in HandlerBegin(decoder, q.mode, q.args) :
            EnterHandler(r, q.mode, b, FALSE)
    /\ UNCHANGED <<raw_text, extracted, xpc, clock, reply, parsed>>

\* generate_content completes with out; the handler parses, stamps and
\* returns, and the route (if any) answers.
UpstreamReturn(r, out) ==
    /\ pc[r] = "upstream"
    /\ reply' = [reply EXCEPT ![r] = out]
    /\ parsed' = [parsed EXCEPT ![r] = @ + ParseCalls(out)]
    /\ LET c == HandlerFinish(req[r].mode, out, clock)
       IN  /\ ret' = [ret EXCEPT ![r] = c]
           /\ http' = IF req[r].via = "http"
                      THEN [http EXCEPT ![r] = RouteRespond(c)]
                      ELSE http
    /\ decoder' = DecoderAfterHandler(decoder, req[r].mode)
    /\ pc' = [pc EXCEPT ![r] = "done"]
    /\ UNCHANGED <<raw_text, extracted, xpc, clock, req, sent>>

\* ------------------------------------------------------ specifications
Init ==
    /\ raw_text = <<>>
    /\ extracted = NoValue
    /\ xpc = "ready"
    /\ ServerInit

\* One request (slot 1), over all the inputs; the other slots stay idle.
Next ==
    \/ Tick
    \/ \E q \in HttpInputs : HttpRequest(1, q)
    \/ Route(1)
    \/ \E q \in DirectInputs : DirectCall(1, q)
    \/ \E out \in Outcomes : UpstreamReturn(1, out)

Spec == Init /\ [][Next]_vars

\* Several requests in flight, over a few inputs.
ConcNext ==
    \/ Tick
    \/ \E r \in Reqs, q \in FewHttpInputs : HttpRequest(r, q)
    \/ \E r \in Reqs : Route(r)
    \/ \E r \in Reqs, out \in FewOutcomes : UpstreamReturn(r, out)

SpecConc == Init /\ [][ConcNext]_vars

\* ------------------------------------------- the extractor on its own
ParseInit ==
    /\ raw_text \in TextsOver(Alphabet, MaxLen)
    /\ extracted = NoValue
    /\ xpc = "ready"
    /\ ServerInit

Extract ==
    /\ xpc = "ready"
    /\ extracted' = ParseEmotionResponse(raw_text)
    /\ xpc' = "returned"
    /\ UNCHANGED <<raw_text, server_vars>>

ParseNext == Extract

SpecParse == ParseInit /\ [][ParseNext]_vars

\* ------------------------------------------------ claims on the extractor
\* A json-tagged fence opens at position i of t.
JsonMarkerAt(t, i) == i + 1 <= Len(t) /\ t[i] = FENCE /\ t[i + 1] = JSONTAG

\* The json-tagged fence at i is closed by the fence at j.
ClosedBlock(t, i, j) == JsonMarkerAt(t, i) /\ i + 1 < j /\ j <= Len(t) /\ t[j] = FENCE

\* c is the text of one JSON value among toks, with only characters of ws
\* around it.
IsValueText(c, toks, ws) ==
    \E k \in 1..Len(c) :
        /\ c[k] \in toks
        /\ \A m \in 1..Len(c) : m # k => c[m] \in ws

\* The object a valid JSON object text stands for.
ObjectOf(c) ==
    IF \E k \in 1..Len(c) : c[k] = OBJ1 THEN PyDict(Obj1) ELSE PyDict(Obj2)

\* The fallback record for the text t, written out.
FallbackFor(t) ==
    [kind |-> "dict",
     v    |-> [primary_emotion |-> "unknown", confidence |-> 0,
               explanation |-> t, raw_response |-> t]]

\* C1 as stated: whenever the text holds a json-tagged fence closed by a
\* later fence with a valid JSON object between them, the extractor returns
\* exactly that object, whatever precedes or follows the block.
C1_AnyJsonFenceReturned ==
    xpc = "returned" =>
        \A i, j \in 1..Len(raw_text) :
            ( /\ ClosedBlock(raw_text, i, j)
              /\ IsValueText(SubSeq(raw_text, i + 2, j - 1), {OBJ1, OBJ2}, {SP}) )
            => extracted = ObjectOf(SubSeq(raw_text, i + 2, j - 1))

\* C1 amended: whenever the FIRST json-tagged fence of the text is followed
\* by a fence, and the text between it and the first fence after it is a
\* valid JSON object, the extractor returns exactly that object, whatever
\* precedes or follows the block.
C1_FirstJsonFenceReturned ==
    xpc = "returned" =>
        \A i, j \in 1..Len(raw_text) :
            ( /\ ClosedBlock(raw_text, i, j)
              /\ \A k \in 1..(i - 1) : ~JsonMarkerAt(raw_text, k)
              /\ \A k \in (i + 2)..(j - 1) : raw_text[k] # FENCE
              /\ IsValueText(SubSeq(raw_text, i + 2, j - 1), {OBJ1, OBJ2}, {SP}) )
            => extracted = ObjectOf(SubSeq(raw_text, i + 2, j - 1))

\* C1 witness: a json-fenced object with prose before and after it has been
\* extracted.
C1_Witness ==
    /\ xpc = "returned"
    /\ Len(raw_text) >= 6
    /\ raw_text[1] = PROSE
    /\ ClosedBlock(raw_text, 2, 5)
    /\ raw_text[4] = OBJ1
    /\ raw_text[6] = PROSE
    /\ extracted = PyDict(Obj1)

\* C2 as stated: a text with no fence that is not valid JSON yields the
\* fallback record carrying the text verbatim.
C2_InvalidJsonFallsBack ==
    ( /\ xpc = "returned"
      /\ ~Contains(raw_text, <<FENCE>>)
      /\ ~IsValueText(raw_text, {OBJ1, OBJ2, NUM}, {SP}) )
    => extracted = FallbackFor(raw_text)

\* C2 amended: a text with no fence that is not valid JSON once the
\* whitespace str.strip() removes is trimmed from both ends yields the
\* fallback record carrying the original text verbatim (untrimmed).
C2_TrimmedInvalidJsonFallsBack ==
    ( /\ xpc = "returned"
      /\ ~Contains(raw_text, <<FENCE>>)
      /\ ~IsValueText(raw_text, {OBJ1, OBJ2, NUM}, {SP, FF}) )
    => extracted = FallbackFor(raw_text)

\* C2 witness: prose padded with whitespace, no fence, came back as the
\* fallback with the padding kept.
C2_Witness ==
    /\ xpc = "returned"
    /\ raw_text = <<SP, PROSE, FF>>
    /\ extracted.v.raw_response = <<SP, PROSE, FF>>
    /\ extracted.v.primary_emotion = "unknown"

\* ------------------------------------------------- claims on the service
\* Request r came in over HTTP / as a direct call of a handler method.
IsHttp(r)   == pc[r] # "idle" /\ req[r].via = "http"
IsDirect(r) == pc[r] # "idle" /\ req[r].via = "direct"

\* The body of HTTP request r is a JSON object.
HasObject(r) == IsHttp(r) /\ req[r].kind = "object"

\* Key k of the JSON object of request r is absent, or absent or empty.
Absent(r, k)    == k \notin DOMAIN req[r].data
NotGiven(r, k)  == Absent(r, k) \/ req[r].data[k] = EMPTY

\* Number of generate_content invocations made for request r.
Upcalls(r) == Len(sent[r])

\* generate_content was invoked for r and has completed.
Replied(r) == pc[r] = "done" /\ Upcalls(r) > 0

\* The route of r answered with this status.
Answered(r, status) == pc[r] = "done" /\ IsHttp(r) /\ http[r].status = status

\* The fallback record for the text t as a handler of mode m returns it,
\* stamped at time ts.
StampedFallback(t, m, ts) ==
    [primary_emotion |-> "unknown", confidence |-> 0,
     explanation |-> t, raw_response |-> t,
     input_type |-> m, timestamp |-> ts]

\* C3 as stated: when the candidate string of a successful reply is not the
\* text of a JSON object (a valid JSON number included), the extractor gives
\* the fallback record, and the handler returns it stamped with input_type
\* and timestamp.
C3_NonObjectFallsBack ==
    \A r \in Reqs :
        ( /\ Replied(r)
          /\ reply[r].ok
          /\ ~IsValueText(Strip(Candidate(reply[r].text)), {OBJ1, OBJ2}, {SP}) )
        => /\ ParseEmotionResponse(reply[r].text) = FallbackFor(reply[r].text)
           /\ ~ret[r].raised
           /\ "timestamp" \in DOMAIN ret[r].value.v
           /\ ret[r].value.v = StampedFallback(reply[r].text, req[r].mode,
                                               ret[r].value.v.timestamp)

\* C4: a text or multimodal request whose JSON object lacks text or gives
\* the empty string for it is answered 400, and no upstream invocation is
\* made for it (nor for a request whose body is no JSON object at all, which
\* takes the route's exception path).
C4_NoTextRejected ==
    \A r \in Reqs :
        ( /\ IsHttp(r)
          /\ req[r].mode \in {"text", "multimodal"}
          /\ (~HasObject(r) \/ NotGiven(r, "text")) )
        => /\ Upcalls(r) = 0
           /\ (pc[r] = "done" /\ HasObject(r)) => http[r].status = 400

\* C4 witness: a multimodal request with an image and the empty string for
\* text was answered 400 with no upstream invocation.
C4_Witness ==
    \E r \in Reqs :
        /\ Answered(r, 400)
        /\ req[r].mode = "multimodal"
        /\ HasObject(r)
        /\ req[r].data = [text |-> EMPTY, image |-> B64OK]
        /\ Upcalls(r) = 0

\* The 400 of the image check.
ImageRejected(r) ==
    /\ Answered(r, 400)
    /\ http[r].body = [error |-> "Image data or URI is required"]

\* C5 as stated: an image or multimodal request that supplies neither image
\* nor image_uri is answered 400 and makes no upstream invocation, and one
\* that supplies either of the two passes the image check.
C5_NoImageIs400 ==
    \A r \in Reqs :
        ( /\ HasObject(r)
          /\ req[r].mode \in {"image", "multimodal"} )
        => /\ (Absent(r, "image") /\ Absent(r, "image_uri"))
              => /\ Upcalls(r) = 0
                 /\ pc[r] = "done" => http[r].status = 400
           /\ ~(Absent(r, "image") /\ Absent(r, "image_uri")) => ~ImageRejected(r)

\* C5 amended: an image or multimodal request with neither a non-empty image
\* nor a non-empty image_uri is answered 400 and makes no upstream
\* invocation; a non-empty value for either of the two passes the image
\* check (an empty string does not).
C5_NoImageRejected ==
    \A r \in Reqs :
        ( /\ HasObject(r)
          /\ req[r].mode \in {"image", "multimodal"} )
        => /\ (NotGiven(r, "image") /\ NotGiven(r, "image_uri"))
              => /\ Upcalls(r) = 0
                 /\ pc[r] = "done" => http[r].status = 400
           /\ ~(NotGiven(r, "image") /\ NotGiven(r, "image_uri")) => ~ImageRejected(r)

\* C5 witness: an image request supplying only the empty string for image
\* was answered with the 400 of the image check, no upstream invocation.
C5_Witness ==
    \E r \in Reqs :
        /\ ImageRejected(r)
        /\ req[r].mode = "image"
        /\ req[r].data = [image |-> EMPTY]
        /\ Upcalls(r) = 0

\* The handler of request r ran (it made its call or returned).
HandlerRan(r) == pc[r] # "idle" /\ (Upcalls(r) > 0 \/ ret[r] # NoValue)

\* The arguments the handler of request r is called with.
HandlerArgs(r) ==
    IF req[r].via = "direct" THEN req[r].args ELSE RouteArgs(req[r].mode, req[r].data)

\* The handler of r lacks a required input: its text is empty, or it has
\* neither image data nor an image URI.
LacksInput(r) ==
    LET a == HandlerArgs(r)
    IN  \/ req[r].mode \in {"text", "multimodal"} /\ a.text \in {None, EMPTY}
        \/ /\ req[r].mode \in {"image", "multimodal"}
           /\ a.image_data \in {None, EMPTY}
           /\ a.image_uri \in {None, EMPTY}

\* C6 as stated: a handler that is run without a required input makes no
\* upstream invocation.
C6_HandlerValidates ==
    \A r \in Reqs : (HandlerRan(r) /\ LacksInput(r)) => Upcalls(r) = 0

\* C6 amended: the handlers validate nothing; the routes do, and never run
\* a handler without its required inputs.  A handler called directly makes
\* its upstream invocation on an empty text (text handler) and on empty
\* image data with no URI (image and multimodal handlers), and every
\* handler call returns a dict: none fails with an input error.
C6_RoutesValidate ==
    \A r \in Reqs :
        /\ (IsHttp(r) /\ HandlerRan(r)) => (HasObject(r) /\ ~LacksInput(r))
        /\ (IsDirect(r) /\ req[r].mode = "text") => Upcalls(r) = 1
        /\ ( /\ IsDirect(r)
             /\ req[r].mode \in {"image", "multimodal"}
             /\ req[r].args.image_data = EMPTY
             /\ req[r].args.image_uri \in {None, EMPTY} ) => Upcalls(r) = 1
        /\ (IsDirect(r) /\ pc[r] = "done") => (~ret[r].raised /\ IsDict(ret[r].value))

\* C6 witness: analyze_text_emotion called directly with the empty string
\* made its upstream invocation and returned.
C6_Witness ==
    \E r \in Reqs :
        /\ IsDirect(r)
        /\ pc[r] = "done"
        /\ req[r].mode = "text"
        /\ req[r].args.text = EMPTY
        /\ Upcalls(r) = 1
        /\ ~ret[r].raised

\* C7 as stated: every result a handler returns after its upstream call
\* succeeded carries input_type equal to the handler's mode and a timestamp
\* no earlier than the start of the request.
C7_SuccessIsStamped ==
    \A r \in Reqs :
        (Replied(r) /\ reply[r].ok)
        => /\ ~ret[r].raised
           /\ "input_type" \in DOMAIN ret[r].value.v
           /\ ret[r].value.v.input_type = req[r].mode
           /\ "timestamp" \in DOMAIN ret[r].value.v
           /\ ret[r].value.v.timestamp >= req[r].start

\* C8: when the upstream call fails, the handler returns the error record
\* (error true, the failure's message, primary_emotion "error", confidence
\* 0, the time of return) as a normal value: no exception escapes it.
C8_UpstreamFailureIsErrorRecord ==
    \A r \in Reqs :
        (Replied(r) /\ ~reply[r].ok)
        => /\ ~ret[r].raised
           /\ IsDict(ret[r].value)
           /\ DOMAIN ret[r].value.v =
                {"error", "message", "primary_emotion", "confidence", "timestamp"}
           /\ ret[r].value.v.error = TRUE
           /\ ret[r].value.v.message = reply[r].msg
           /\ ret[r].value.v.primary_emotion = "error"
           /\ ret[r].value.v.confidence = 0
           /\ ret[r].value.v.timestamp \in req[r].start..clock

\* C8 witness: the image handler returned the error record after its
\* upstream call failed.
C8_Witness ==
    \E r \in Reqs :
        /\ Replied(r)
        /\ ~reply[r].ok
        /\ req[r].mode = "image"
        /\ ~ret[r].raised
        /\ ret[r].value.v.primary_emotion = "error"
        /\ ret[r].value.v.message = "503 Service Unavailable"

\* C9 as stated: for a request that passed validation, an upstream failure
\* is answered 200 with error true; a successful reply that does not parse
\* to an object is answered 200 with the fallback shape and no error key;
\* and 500 is answered only when the route itself caught an exception.
C9_ErrorFlagTellsFailures ==
    \A r \in Reqs :
        /\ (IsHttp(r) /\ Replied(r) /\ ~reply[r].ok)
           => /\ http[r].status = 200
              /\ "error" \in DOMAIN http[r].body
              /\ http[r].body.error = TRUE
        /\ ( /\ IsHttp(r) /\ Replied(r) /\ reply[r].ok
             /\ ~IsValueText(Strip(Candidate(reply[r].text)), {OBJ1, OBJ2}, {SP}) )
           => /\ http[r].status = 200
              /\ "error" \notin DOMAIN http[r].body
              /\ "timestamp" \in DOMAIN http[r].body
              /\ http[r].body = StampedFallback(reply[r].text, req[r].mode,
                                                http[r].body.timestamp)
        /\ Answered(r, 500) => (~HasObject(r) /\ ret[r] = NoValue)

\* C10: the decoder is never modified after its construction, and what is
\* sent upstream for a request, what its handler returns and what its route
\* answers are determined by the request's own inputs, the upstream reply to
\* it and the time of its return, whatever other requests are in flight.
C10_RequestsIndependent ==
    /\ decoder = DecoderInit
    /\ \A r \in Reqs :
        IsHttp(r) =>
            /\ Upcalls(r) <= 1
            /\ Upcalls(r) = 1 =>
                  /\ HasObject(r)
                  /\ \E b \in HandlerBegin(DecoderInit, req[r].mode, HandlerArgs(r)) :
                        b.call /\ sent[r] = <<b.contents>>
            /\ Replied(r) =>
                  /\ \E t \in req[r].start..clock :
                        ret[r] = HandlerFinish(req[r].mode, reply[r], t)
                  /\ http[r] = RouteRespond(ret[r])
            /\ (pc[r] = "done" /\ Upcalls(r) = 0 /\ HasObject(r)) =>
                  \/ /\ RouteReject(req[r].mode, req[r].data) # OK
                     /\ http[r] = Response(400, [error |-> RouteReject(req[r].mode, req[r].data)])
                  \/ /\ RouteReject(req[r].mode, req[r].data) = OK
                     /\ http[r] = RouteRespond(ret[r])
                     /\ \E b \in HandlerBegin(DecoderInit, req[r].mode, HandlerArgs(r)) :
                           /\ ~b.call
                           /\ \E t \in req[r].start..clock :
                                 ret[r] = Return(ErrorResponse(b.msg, t))

\* C10 witness: two requests are done, the first to arrive answered only
\* after the second had arrived, one with a parsed result and one with an
\* error record.
C10_Witness ==
    \E r1, r2 \in Reqs :
        /\ r1 # r2
        /\ Replied(r1) /\ Replied(r2)
        /\ reply[r1].ok /\ ~reply[r2].ok
        /\ req[r1].start < req[r2].start
        /\ http[r1].status = 200 /\ http[r2].status = 200
        /\ http[r1].body.timestamp >= req[r2].start
        /\ http[r1].body.primary_emotion = "joy"
        /\ http[r2].body.primary_emotion = "error"

\* The handler of r is an image or multimodal one called with no truthy
\* image URI and with inline data that base64.b64decode rejects.
UndecodableImage(r) ==
    /\ req[r].mode \in {"image", "multimodal"}
    /\ ~Truthy(HandlerArgs(r).image_uri)
    /\ HandlerArgs(r).image_data = B64BAD

\* The handler of r is called with neither a truthy image URI nor any inline
\* data, so that Part.from_data is handed None.
NoImageAtAll(r) ==
    /\ req[r].mode \in {"image", "multimodal"}
    /\ ~Truthy(HandlerArgs(r).image_uri)
    /\ HandlerArgs(r).image_data = None

\* The handler call of r returned the error record.
ReturnedErrorRecord(r) ==
    /\ ret[r] # NoValue
    /\ ~ret[r].raised
    /\ "error" \in DOMAIN ret[r].value.v

\* C11 as stated: every handler call that has returned made exactly one
\* upstream model invocation and exactly one parse step, calls with inline
\* image data that is not valid base64 included.
C11_ExactlyOneCallAndParse ==
    \A r \in Reqs :
        (HandlerRan(r) /\ pc[r] = "done")
        => /\ Upcalls(r) = 1
           /\ parsed[r] = 1

\* C11 amended: a handler call is one linear attempt with no retry: it makes
\* at most one upstream invocation and at most one parse step.  The parse
\* step is made exactly when the invocation was made and gave a reply text.
\* The invocation is made exactly once unless building the image part raises
\* first; it does for inline data that base64.b64decode rejects when no
\* truthy URI is given, and such a call returns the error record with no
\* invocation and no parse step.
C11_SingleAttemptAtMostOnce ==
    \A r \in Reqs :
        /\ Upcalls(r) <= 1
        /\ parsed[r] <= 1
        /\ parsed[r] = 1 <=> (Replied(r) /\ reply[r].ok)
        /\ (HandlerRan(r) /\ UndecodableImage(r))
           => /\ pc[r] = "done"
              /\ Upcalls(r) = 0
              /\ parsed[r] = 0
              /\ ReturnedErrorRecord(r)
        /\ (HandlerRan(r) /\ ~UndecodableImage(r) /\ ~NoImageAtAll(r))
           => Upcalls(r) = 1

\* C11 witness: a multimodal call with text, inline data that is not valid
\* base64 and no URI has returned the error record, with no upstream
\* invocation and no parse step.
C11_Witness ==
    \E r \in Reqs :
        /\ pc[r] = "done"
        /\ req[r].mode = "multimodal"
        /\ HandlerArgs(r).text = TEXT
        /\ UndecodableImage(r)
        /\ ReturnedErrorRecord(r)
        /\ Upcalls(r) = 0
        /\ parsed[r] = 0

\* The handler of r is an image or multimodal one given both inline data
\* and an image URI (neither argument is None).
BothSupplied(r) ==
    /\ req[r].mode \in {"image", "multimodal"}
    /\ HandlerArgs(r).image_data # None
    /\ HandlerArgs(r).image_uri # None

\* The image part passed to generate_content for r: it follows the prompt.
SentPart(r) == sent[r][1][2]

\* C12 as stated: when both inline data and an image URI are supplied, the
\* part sent upstream is built from the URI and the inline data is never
\* decoded, so the call always reaches its upstream invocation and an error
\* record can come only from that invocation or after it.
C12_UriTakesPrecedence ==
    \A r \in Reqs :
        (HandlerRan(r) /\ BothSupplied(r))
        => /\ Upcalls(r) = 1
           /\ SentPart(r).kind = "uri"
           /\ SentPart(r).ref = HandlerArgs(r).image_uri

\* C12 amended: when inline data is supplied together with a non-empty
\* image URI, the part sent upstream is built from the URI and the inline
\* data is never decoded (an empty URI does not take precedence): the call
\* always reaches its one upstream invocation, whatever the inline data, and
\* an error record can come only from that invocation or after it.
C12_TruthyUriTakesPrecedence ==
    \A r \in Reqs :
        (HandlerRan(r) /\ BothSupplied(r) /\ Truthy(HandlerArgs(r).image_uri))
        => /\ Upcalls(r) = 1
           /\ SentPart(r) = [kind |-> "uri", ref |-> HandlerArgs(r).image_uri,
                              mime |-> "image/jpeg"]
           /\ ReturnedErrorRecord(r) => Replied(r)

\* C12 witness: an image request carrying inline data that is not valid
\* base64 together with a URI was sent upstream as the URI part and, on a
\* reply holding a JSON object, answered 200 with no error record.
C12_Witness ==
    \E r \in Reqs :
        /\ Answered(r, 200)
        /\ req[r].mode = "image"
        /\ req[r].data = [image |-> B64BAD, image_uri |-> URI]
        /\ Upcalls(r) = 1
        /\ SentPart(r).kind = "uri"
        /\ SentPart(r).ref = URI
        /\ reply[r].ok
        /\ parsed[r] = 1
        /\ ~ReturnedErrorRecord(r)

====
